---- MODULE Spec2Model ----
(***************************************************************************)
(* The IP-trust / session-authentication core of the portfolio API:        *)
(* bearer-token verification (src/apps/accounts/dependencies.py), the      *)
(* identity & trust resolver, the account service                          *)
(* (src/apps/accounts/services.py) and the auth / user routes              *)
(* (src/apps/accounts/views.py), with the central error handlers of        *)
(* src/errors.py.                                                          *)
(*                                                                         *)
(* Each HTTP request is one action; `last` records what the request was    *)
(* and how it ended, so that properties of an outcome are state            *)
(* predicates over the state right after the request.                      *)
(***************************************************************************)
EXTENDS Integers, FiniteSets, Sequences, Bags, TLC

(***************************************************************************)
(* Bounds of the model.                                                    *)
(***************************************************************************)
\* the work of one run: users registered, access tokens signed, rows in
\* known_ips and banned_ips, entries in the Revocation Store, clock steps and
\* requests between two of their steps, taken together
MaxWork == 5

(***************************************************************************)
(* Program constants.                                                      *)
(***************************************************************************)
ACCESS_TOKEN_EXPIRY == 1800
REFRESH_TOKEN_EXPIRY == 7 * 86400
\* seconds per clock step: an access token lives two steps
TickStep == ACCESS_TOKEN_EXPIRY \div 2

HTTP_400_BAD_REQUEST == 400
HTTP_401_UNAUTHORIZED == 401
HTTP_404_NOT_FOUND == 404
HTTP_407_PROXY_AUTHENTICATION_REQUIRED == 407
HTTP_500_INTERNAL_SERVER_ERROR == 500
HTTP_200_OK == 200
HTTP_201_CREATED == 201

None == "None"
\* a string is a sequence of tokens; an address is a string of one token
LOOPBACK == <<"127.0.0.1">>

Emails == {"u1@x.io", "u2@x.io"}
Passwords == {"secret", "wrong"}
\* addresses a client or a management call can name
IPs == {<<"10.0.0.1">>, <<"10.0.0.2">>}
\* the hosts get_ip_address recognises, and one it does not
RecognizedHosts == {"localhost", "api.jeremiahedavid.online", "api.jeremiahedavid.com.ng"}
\* the requests of the model: the headers present, the host of the URL, the peer
Requests ==
    {[headers |-> <<>>, host |-> "localhost", peer |-> <<"10.0.0.1">>],
     [headers |-> [h \in {"X-Forwarded-For"} |-> <<"10.0.0.2", ",", " ", "10.0.0.1">>],
      host |-> "api.jeremiahedavid.online", peer |-> <<"10.0.0.1">>]}

VARIABLES
    users,       \* the users table: uid -> row
    nextUid,     \* the next uid uuid4 hands out
    knownIps,    \* the known_ips table: bag of <<userUid, ip>>
    bannedIps,   \* the banned_ips table: bag of <<userUid, ip>>
    issued,      \* the tokens signed so far with the server's secret
    nextJti,     \* the next jti uuid4 hands out
    blocklist,   \* the Revocation Store: jti -> instant its entry expires
    now,         \* the clock, in seconds
    inflight,    \* bag of the requests between two of their steps
    last         \* the request handled last and its outcome

vars ==
    <<users, nextUid, knownIps, bannedIps, issued, nextJti, blocklist, now, inflight, last>>

stores == <<users, nextUid, knownIps, bannedIps, issued, nextJti, blocklist, now, inflight>>

(***************************************************************************)
(* Strings as the code handles them.                                       *)
(***************************************************************************)
\* str.split(',')[0]: the part before the first comma
RECURSIVE SplitFirst(_)
SplitFirst(s) ==
    IF s = <<>> \/ Head(s) = "," THEN <<>> ELSE <<Head(s)>> \o SplitFirst(Tail(s))

RECURSIVE LStrip(_)
LStrip(s) == IF s # <<>> /\ Head(s) = " " THEN LStrip(Tail(s)) ELSE s

RECURSIVE RStrip(_)
RStrip(s) ==
    IF s # <<>> /\ s[Len(s)] = " " THEN RStrip(SubSeq(s, 1, Len(s) - 1)) ELSE s

\* str.strip()
Strip(s) == RStrip(LStrip(s))

\* request.headers.get(name): <<value>> when the header is present, else <<>>
HeaderGet(request, name) ==
    IF name \in DOMAIN request.headers THEN <<request.headers[name]>> ELSE <<>>

\* a variant that asks X-Real-IP before X-Forwarded-For
get_ip_address_RealIpFirst(request) ==
    LET nextIp == HeaderGet(request, "next-ip")
        xff == HeaderGet(request, "X-Forwarded-For")
        xReal == HeaderGet(request, "X-Real-IP")
        ip == IF nextIp = <<>> /\ request.host \in RecognizedHosts
              THEN IF xReal # <<>> /\ xReal[1] # <<>>
                   THEN xReal[1]
                   ELSE IF xff # <<>> THEN Strip(SplitFirst(xff[1])) ELSE request.peer
              ELSE IF nextIp = <<>> THEN <<>> ELSE nextIp[1]
    IN  IF ip = <<>> THEN LOOPBACK ELSE ip

get_ip_address(request) ==
    LET nextIp == HeaderGet(request, "next-ip")
        xff == HeaderGet(request, "X-Forwarded-For")
        xReal == HeaderGet(request, "X-Real-IP")
        ip == IF nextIp = <<>> /\ request.host \in RecognizedHosts
              THEN IF xff # <<>> /\ xff[1] # <<>>
                   THEN Strip(SplitFirst(xff[1]))
                   ELSE IF xReal # <<>> THEN xReal[1] ELSE request.peer
              ELSE IF nextIp = <<>> THEN <<>> ELSE nextIp[1]
    IN  IF ip = <<>> THEN LOOPBACK ELSE ip

(***************************************************************************)
(* Token Codec and Revocation Store.                                       *)
(***************************************************************************)
\* the Authorization header is absent
NoCredentials == [present |-> FALSE]

\* a bearer credential: the claims it carries and whether its signature verifies
Credential(claims, signed) == [present |-> TRUE, claims |-> claims, signed |-> signed]

\* create_access_token: claims signed with the server's secret
create_access_token(user_data, jti, refresh, expiry) ==
    [user |-> user_data, jti |-> jti, refresh |-> refresh, exp |-> now + expiry]

\* decode_token: <<claims>>, or <<>> (None) when the signature does not verify
\* or the token has expired
decode_token(token) ==
    IF token.signed /\ token.claims.exp > now THEN <<token.claims>> ELSE <<>>

\* token_in_blocklist: the jti has an entry that has not expired
token_in_blocklist(jti) ==
    jti \in DOMAIN blocklist /\ blocklist[jti] > now

\* add_jti_to_blocklist: the store after the entry is written
add_jti_to_blocklist(jti) ==
    [j \in DOMAIN blocklist \cup {jti} |->
        IF j = jti THEN now + ACCESS_TOKEN_EXPIRY ELSE blocklist[j]]

(***************************************************************************)
(* Bearer Verifier.                                                        *)
(***************************************************************************)
\* TokenBearer.token_valid
token_valid(token) == decode_token(token) # <<>>

\* a variant in which RefreshTokenBearer does not look at the refresh flag
verify_token_data_RefreshAcceptsAny(bearer, token_data) ==
    IF bearer = "access"
    THEN IF token_data.refresh THEN "AccessTokenRequired" ELSE "ok"
    ELSE "ok"

\* AccessTokenBearer.verify_token_data / RefreshTokenBearer.verify_token_data:
\* the error raised, or "ok"
verify_token_data(bearer, token_data) ==
    IF bearer = "access"
    THEN IF token_data.refresh THEN "AccessTokenRequired" ELSE "ok"
    ELSE IF ~token_data.refresh THEN "RefreshTokenRequired" ELSE "ok"

\* a variant that checks the kind of the token before the Revocation Store
TokenBearer_KindBeforeRevocation(bearer, creds) ==
    IF ~creds.present THEN "NotAuthenticated"
    ELSE LET token_data == decode_token(creds) IN
         IF token_data = <<>> THEN "InvalidToken"
         ELSE IF verify_token_data(bearer, token_data[1]) # "ok"
              THEN verify_token_data(bearer, token_data[1])
         ELSE IF token_in_blocklist(token_data[1].jti) THEN "InvalidToken"
         ELSE "ACCEPTED"

\* a variant that never asks the Revocation Store
TokenBearer_NoBlocklist(bearer, creds) ==
    IF ~creds.present THEN "NotAuthenticated"
    ELSE LET token_data == decode_token(creds) IN
         IF token_data = <<>> THEN "InvalidToken"
         ELSE IF verify_token_data(bearer, token_data[1]) # "ok"
              THEN verify_token_data(bearer, token_data[1])
         ELSE "ACCEPTED"

\* a variant that goes on with the claims of a signed token when decode_token
\* returns None
TokenBearer_IgnoresDecodeFailure(bearer, creds) ==
    IF ~creds.present THEN "NotAuthenticated"
    ELSE IF ~creds.signed THEN "InvalidToken"
    ELSE IF token_in_blocklist(creds.claims.jti) THEN "InvalidToken"
    ELSE IF verify_token_data(bearer, creds.claims) # "ok"
         THEN verify_token_data(bearer, creds.claims)
    ELSE "ACCEPTED"

\* TokenBearer.__call__ of the bearer given ("access" or "refresh"): the error
\* raised, or "ACCEPTED" when the claims are returned
TokenBearer(bearer, creds) ==
    IF ~creds.present THEN "NotAuthenticated"
    ELSE LET token_data == decode_token(creds) IN
         IF token_data = <<>> THEN "InvalidToken"
         ELSE LET token_is_valid == token_valid(creds)
                  blocked == token_in_blocklist(token_data[1].jti)
              IN  IF ~token_is_valid THEN "InvalidToken"
                  ELSE IF blocked THEN "InvalidToken"
                  ELSE IF verify_token_data(bearer, token_data[1]) # "ok"
                       THEN verify_token_data(bearer, token_data[1])
                       ELSE "ACCEPTED"

(***************************************************************************)
(* Identity & Trust Resolver.                                              *)
(***************************************************************************)
\* select(User).where(User.email == email).first(): <<uid>> or <<>>
UserByEmail(email) ==
    LET found == {u \in DOMAIN users : users[u].email = email}
    IN  IF found = {} THEN <<>> ELSE <<CHOOSE u \in found : TRUE>>

\* select(User).where(User.uid == uid).first(): <<uid>> or <<>>
UserByUid(uid) == IF uid \in DOMAIN users THEN <<uid>> ELSE <<>>

\* UserService.get_user_by_email_or_uid
get_user_by_email_or_uid(email, uid) ==
    IF email # None THEN UserByEmail(email)
    ELSE IF uid # 0 THEN UserByUid(uid) ELSE <<>>

\* a variant that does not look at the banned_ips table
IpCheck_NoBanCheck(uid, ip) ==
    IF ~BagIn(<<uid, ip>>, knownIps) THEN "UnknownIpConflict" ELSE "ok"

\* a variant that looks at the banned_ips table first
IpCheck_BanFirst(uid, ip) ==
    IF BagIn(<<uid, ip>>, bannedIps) THEN "BannedIp"
    ELSE IF ~BagIn(<<uid, ip>>, knownIps) THEN "UnknownIpConflict"
    ELSE "ok"

\* does_ip_exist for the client address already determined: the error raised,
\* or "ok"
IpCheck(uid, ip) ==
    IF ~BagIn(<<uid, ip>>, knownIps) THEN "UnknownIpConflict"
    ELSE IF BagIn(<<uid, ip>>, bannedIps) THEN "BannedIp"
    ELSE "ok"

does_ip_exist(uid, request) == IpCheck(uid, get_ip_address(request))

\* does_user_exist, called with an email: [err, user]
does_user_exist(email, request) ==
    LET user == UserByEmail(email) IN
    IF user = <<>> THEN [err |-> "UserNotFound", user |-> 0]
    ELSE IF does_ip_exist(user[1], request) # "ok"
         THEN [err |-> does_ip_exist(user[1], request), user |-> 0]
         ELSE [err |-> "ok", user |-> user[1]]

\* a variant that does not look at User.isBlocked
get_current_user_NoBlockCheck(creds, request) ==
    IF TokenBearer("access", creds) # "ACCEPTED"
    THEN [err |-> TokenBearer("access", creds), user |-> 0]
    ELSE does_user_exist(creds.claims.user.email, request)

\* get_current_user with its AccessTokenBearer dependency: [err, user]
get_current_user(creds, request) ==
    IF TokenBearer("access", creds) # "ACCEPTED"
    THEN [err |-> TokenBearer("access", creds), user |-> 0]
    ELSE LET found == does_user_exist(creds.claims.user.email, request) IN
         IF found.err # "ok" THEN found
         ELSE IF users[found.user].isBlocked THEN [err |-> "UserBlocked", user |-> 0]
         ELSE found

(***************************************************************************)
(* The central error handlers: the HTTP status a request ends with.        *)
(***************************************************************************)
\* a variant with no handler installed for UserNotFound
status_code_NoUserNotFound(outcome) ==
    CASE outcome \in {"BannedIp", "InvalidToken", "AccessTokenRequired", "UserBlocked"}
            -> HTTP_401_UNAUTHORIZED
      [] outcome = "UnknownIpConflict" -> HTTP_407_PROXY_AUTHENTICATION_REQUIRED
      [] OTHER -> HTTP_500_INTERNAL_SERVER_ERROR

\* the exception classes register_all_errors installs a handler for
status_code(outcome) ==
    CASE outcome = "UnknownIpConflict" -> HTTP_407_PROXY_AUTHENTICATION_REQUIRED
      [] outcome = "BannedIp" -> HTTP_401_UNAUTHORIZED
      [] outcome = "InvalidToken" -> HTTP_401_UNAUTHORIZED
      [] outcome = "RevokedToken" -> HTTP_401_UNAUTHORIZED
      [] outcome = "AccessTokenRequired" -> HTTP_401_UNAUTHORIZED
      [] outcome = "RefreshTokenRequired" -> HTTP_401_UNAUTHORIZED
      [] outcome = "InsufficientPermission" -> HTTP_401_UNAUTHORIZED
      [] outcome = "InvalidCredentials" -> HTTP_401_UNAUTHORIZED
      [] outcome = "UserBlocked" -> HTTP_401_UNAUTHORIZED
      [] outcome = "UserAlreadyExists" -> HTTP_400_BAD_REQUEST
      [] outcome = "UserNotFound" -> HTTP_404_NOT_FOUND
      [] outcome = "Created" -> HTTP_201_CREATED
      \* HTTPBearer(auto_error=True) answers a request without credentials itself
      [] outcome = "NotAuthenticated" -> 403
      [] outcome \in {"ok", "VerifyEmail"} -> HTTP_200_OK
      [] OTHER -> HTTP_500_INTERNAL_SERVER_ERROR

(***************************************************************************)
(* State after construction, and what a client can present.                *)
(***************************************************************************)
\* the record of a request: the route, the credential and client address it
\* came with, the e-mail or uid it names, the bearer's verdict, how it ended
\* and the user it was resolved to
Req(op, creds, ip, email, uid, verdict, outcome, user) ==
    [op |-> op, creds |-> creds, ip |-> ip, email |-> email, uid |-> uid,
     target |-> <<>>, verdict |-> verdict, outcome |-> outcome, user |-> user]

\* the record of a management request, with the address its body or path names
Managed(op, creds, ip, uid, target, outcome, user) ==
    [Req(op, creds, ip, None, uid, "ACCEPTED", outcome, user) EXCEPT !.target = target]

Init ==
    /\ users = <<>>
    /\ nextUid = 1
    /\ knownIps = EmptyBag
    /\ bannedIps = EmptyBag
    /\ issued = {}
    /\ nextJti = 1
    /\ blocklist = <<>>
    /\ now = 0
    /\ inflight = EmptyBag
    /\ last = Req("idle", NoCredentials, <<>>, None, 0, "none", "none", 0)

\* a token an attacker builds from one it holds: the expiry pushed out, so the
\* signature no longer verifies
Forged(t) == [t EXCEPT !.exp = @ + REFRESH_TOKEN_EXPIRY]

\* the Authorization headers a client can send
Presentable ==
    {NoCredentials}
        \cup {Credential(t, TRUE) : t \in issued}
        \cup {Credential(Forged(t), FALSE) : t \in issued}

Rows == BagCardinality(knownIps) + BagCardinality(bannedIps)

\* the work done so far, and whether n more units fit the bound
Work ==
    (nextUid - 1) + Cardinality({t \in issued : ~t.refresh}) + Rows
        + Cardinality(DOMAIN blocklist) + (now \div TickStep)
        + BagCardinality(inflight)
Fits(n) == Work + n <= MaxWork

\* the uids a path parameter can name: every one handed out, and one that was not
UIDs == 1..nextUid

\* the access tokens a client holds, as issued
Held == {Credential(t, TRUE) : t \in {x \in issued : ~x.refresh}}

\* generateHashKey / verifyHashKey
generateHashKey(password) == <<"hash", password>>
verifyHashKey(password, hash) == hash = generateHashKey(password)

\* a variant without the cascade: every row survives
Cascade_None(table, uid) == table

\* the rows of a table that survive the cascade when user uid is deleted
Cascade(table, uid) ==
    [p \in {q \in DOMAIN table : q[1] # uid} |-> table[p]]

(***************************************************************************)
(* Account service and auth routes.                                        *)
(***************************************************************************)
\* POST /auth/signup: register -> UserService.register_new_user
register(request, email, password, permission) ==
    /\ last.op = "idle"
    /\ LET user == get_user_by_email_or_uid(email, 0)
           ip == get_ip_address(request)
       IN  IF user # <<>>
           THEN /\ last' = Req("register", NoCredentials, ip, email, 0, "none",
                               "UserAlreadyExists", 0)
                /\ UNCHANGED stores
           ELSE /\ Fits(2)
                /\ users' = [u \in DOMAIN users \cup {nextUid} |->
                               IF u = nextUid
                               THEN [email |-> email,
                                     passwordHash |-> generateHashKey(password),
                                     isBlocked |-> FALSE,
                                     isCompany |-> permission \in {"company", "superuser"},
                                     isSuperuser |-> permission = "superuser",
                                     verifiedEmails |-> {}]
                               ELSE users[u]]
                /\ knownIps' = knownIps (+) SetToBag({<<nextUid, ip>>})
                /\ nextUid' = nextUid + 1
                /\ last' = Req("register", NoCredentials, ip, email, 0, "none",
                               "Created", nextUid)
                /\ UNCHANGED <<bannedIps, issued, nextJti, blocklist, now, inflight>>

\* POST /auth/verify-email/{token}, with a token that names this e-mail
verify_email(email) ==
    /\ last.op = "idle"
    /\ LET user == get_user_by_email_or_uid(email, 0) IN
       IF user = <<>>
       THEN /\ last' = Req("verify_email", NoCredentials, <<>>, email, 0, "none",
                           "UserNotFound", 0)
            /\ UNCHANGED stores
       ELSE /\ users' = [users EXCEPT ![user[1]].verifiedEmails = @ \cup {email}]
            /\ last' = Req("verify_email", NoCredentials, <<>>, email, 0, "none",
                           "ok", user[1])
            /\ UNCHANGED <<nextUid, knownIps, bannedIps, issued, nextJti, blocklist, now, inflight>>

\* a variant that verifies the password before it looks at the client address
authenticate_user_PasswordFirst(email, password, request) ==
    LET user == get_user_by_email_or_uid(email, 0) IN
    IF user = <<>> THEN [err |-> "UserNotFound", user |-> 0]
    ELSE IF ~verifyHashKey(password, users[user[1]].passwordHash)
         THEN [err |-> "InvalidCredentials", user |-> 0]
    ELSE IF does_ip_exist(user[1], request) # "ok"
         THEN [err |-> does_ip_exist(user[1], request), user |-> 0]
    ELSE [err |-> "ok", user |-> user[1]]

\* UserService.authenticate_user: [err, user]
authenticate_user(email, password, request) ==
    LET user == get_user_by_email_or_uid(email, 0) IN
    IF user = <<>> THEN [err |-> "UserNotFound", user |-> 0]
    ELSE IF does_ip_exist(user[1], request) # "ok"
         THEN [err |-> does_ip_exist(user[1], request), user |-> 0]
    ELSE IF ~verifyHashKey(password, users[user[1]].passwordHash)
         THEN [err |-> "InvalidCredentials", user |-> 0]
    ELSE [err |-> "ok", user |-> user[1]]

\* a variant of login that trusts the address of a login it turns away
login_TrustOnFirstUse(request, email, password) ==
    /\ last.op = "idle"
    /\ LET auth == authenticate_user(email, password, request)
           ip == get_ip_address(request)
           user == get_user_by_email_or_uid(email, 0)
           user_data == [email |-> email, user_uid |-> auth.user]
       IN  IF auth.err = "UnknownIpConflict"
           THEN /\ Fits(1)
                /\ knownIps' = knownIps (+) SetToBag({<<user[1], ip>>})
                /\ last' = Req("login", NoCredentials, ip, email, 0, "none", auth.err, 0)
                /\ UNCHANGED <<users, nextUid, bannedIps, issued, nextJti, blocklist, now, inflight>>
           ELSE IF auth.err # "ok"
           THEN /\ last' = Req("login", NoCredentials, ip, email, 0, "none", auth.err, 0)
                /\ UNCHANGED stores
           ELSE IF Cardinality(users[auth.user].verifiedEmails) < 1
           THEN /\ last' = Req("login", NoCredentials, ip, email, 0, "none",
                               "VerifyEmail", auth.user)
                /\ UNCHANGED stores
           ELSE /\ Fits(1)
                /\ issued' = issued \cup
                      {create_access_token(user_data, nextJti, FALSE, ACCESS_TOKEN_EXPIRY),
                       create_access_token(user_data, nextJti + 1, TRUE,
                                           REFRESH_TOKEN_EXPIRY)}
                /\ nextJti' = nextJti + 2
                /\ last' = Req("login", NoCredentials, ip, email, 0, "none", "ok", auth.user)
                /\ UNCHANGED <<users, nextUid, knownIps, bannedIps, blocklist, now, inflight>>

\* POST /auth/login
login(request, email, password) ==
    /\ last.op = "idle"
    /\ LET auth == authenticate_user(email, password, request)
           ip == get_ip_address(request)
           user_data == [email |-> email, user_uid |-> auth.user]
           access_token == create_access_token(user_data, nextJti, FALSE, ACCESS_TOKEN_EXPIRY)
           refresh_token == create_access_token(user_data, nextJti + 1, TRUE, REFRESH_TOKEN_EXPIRY)
       IN  IF auth.err # "ok"
           THEN /\ last' = Req("login", NoCredentials, ip, email, 0, "none", auth.err, 0)
                /\ UNCHANGED stores
           ELSE IF Cardinality(users[auth.user].verifiedEmails) < 1
           THEN /\ last' = Req("login", NoCredentials, ip, email, 0, "none",
                               "VerifyEmail", auth.user)
                /\ UNCHANGED stores
           ELSE /\ Fits(1)
                /\ issued' = issued \cup {access_token, refresh_token}
                /\ nextJti' = nextJti + 2
                /\ last' = Req("login", NoCredentials, ip, email, 0, "none", "ok", auth.user)
                /\ UNCHANGED <<users, nextUid, knownIps, bannedIps, blocklist, now, inflight>>

\* GET /auth/refresh_token: get_new_access_token
get_new_access_token(creds, request) ==
    /\ last.op = "idle"
    /\ LET verdict == TokenBearer("refresh", creds)
           ip == get_ip_address(request)
       IN
       IF verdict # "ACCEPTED"
       THEN /\ last' = Req("refresh_token", creds, ip, None, 0, verdict, verdict, 0)
            /\ UNCHANGED stores
       ELSE LET token_details == creds.claims
                user == get_user_by_email_or_uid(token_details.user.email, 0)
            IN  IF token_details.exp \div 86400 < now \div 86400
                THEN /\ last' = Req("refresh_token", creds, ip, None, 0, verdict,
                                    "InvalidToken", 0)
                     /\ UNCHANGED stores
                ELSE IF user = <<>>
                THEN /\ last' = Req("refresh_token", creds, ip, None, 0, verdict,
                                    "UserNotFound", 0)
                     /\ UNCHANGED stores
                ELSE /\ Fits(1)
                     /\ issued' = issued \cup
                           {create_access_token(token_details.user, nextJti, FALSE,
                                                ACCESS_TOKEN_EXPIRY)}
                     /\ nextJti' = nextJti + 1
                     /\ last' = Req("refresh_token", creds, ip, None, 0, verdict,
                                    "ok", user[1])
                     /\ UNCHANGED <<users, nextUid, knownIps, bannedIps, blocklist, now, inflight>>

\* a variant of revoke_token that answers without writing to the store
revoke_token_NoWrite(creds, request) ==
    /\ last.op = "idle"
    /\ LET verdict == TokenBearer("access", creds)
           ip == get_ip_address(request)
       IN  /\ last' = Req("logout", creds, ip, None, 0, verdict,
                          IF verdict = "ACCEPTED" THEN "ok" ELSE verdict, 0)
           /\ UNCHANGED stores

\* a variant of revoke_token that also revokes the refresh token of the login
revoke_token_AllOfLogin(creds, request) ==
    /\ last.op = "idle"
    /\ LET verdict == TokenBearer("access", creds)
           ip == get_ip_address(request)
       IN
       IF verdict # "ACCEPTED"
       THEN /\ last' = Req("logout", creds, ip, None, 0, verdict, verdict, 0)
            /\ UNCHANGED stores
       ELSE /\ creds.claims.jti \in DOMAIN blocklist \/ Fits(1)
            /\ blocklist' = [j \in DOMAIN blocklist \cup {creds.claims.jti, creds.claims.jti + 1}
                                |-> now + REFRESH_TOKEN_EXPIRY]
            /\ last' = Req("logout", creds, ip, None, 0, verdict, "ok", 0)
            /\ UNCHANGED <<users, nextUid, knownIps, bannedIps, issued, nextJti, now, inflight>>

\* GET /auth/logout: revoke_token
revoke_token(creds, request) ==
    /\ last.op = "idle"
    /\ LET verdict == TokenBearer("access", creds)
           ip == get_ip_address(request)
       IN
       IF verdict # "ACCEPTED"
       THEN /\ last' = Req("logout", creds, ip, None, 0, verdict, verdict, 0)
            /\ UNCHANGED stores
       ELSE /\ creds.claims.jti \in DOMAIN blocklist \/ Fits(1)
            /\ blocklist' = add_jti_to_blocklist(creds.claims.jti)
            /\ last' = Req("logout", creds, ip, None, 0, verdict, "ok", 0)
            /\ UNCHANGED <<users, nextUid, knownIps, bannedIps, issued, nextJti, now, inflight>>

(***************************************************************************)
(* User routes: each depends on get_current_user.                          *)
(***************************************************************************)
\* the record of a request that its get_current_user dependency ended, before
\* the route was entered
Failed(creds, request) ==
    Req("get_current_user", creds, get_ip_address(request), None, 0,
        TokenBearer("access", creds), get_current_user(creds, request).err, 0)

\* GET /users/me
me(creds, request) ==
    /\ last.op = "idle"
    /\ LET cur == get_current_user(creds, request) IN
       /\ last' = IF cur.err # "ok" THEN Failed(creds, request)
                  ELSE Req("me", creds, get_ip_address(request), None, 0,
                           "ACCEPTED", "ok", cur.user)
       /\ UNCHANGED stores

\* a variant of the permission test that lets every resolved caller through
owner_or_superuser_AnyUser(user, uid) == "ok"

\* the permission test the management routes share: the error raised, or "ok"
owner_or_superuser(user, uid) ==
    IF user # uid /\ ~users[user].isSuperuser THEN "InsufficientPermission" ELSE "ok"

\* how a management route ends before it reaches the service: the error of
\* get_current_user, of the permission test, or of using a user that is None
guard(creds, request, uid) ==
    LET cur == get_current_user(creds, request) IN
    IF cur.err # "ok" THEN cur.err
    ELSE IF owner_or_superuser(cur.user, uid) # "ok" THEN owner_or_superuser(cur.user, uid)
    ELSE IF get_user_by_email_or_uid(None, uid) = <<>> THEN "InternalError"
    ELSE "ok"

\* a variant that writes no row
add_allowed_ip_NoRow(uid, ip) == knownIps

\* UserService.add_allowed_ip: the known_ips table after it
add_allowed_ip(uid, ip) == knownIps (+) SetToBag({<<uid, ip>>})

\* UserService.add_banned_ip: the banned_ips table after its first commit
add_banned_ip(uid, ip) == bannedIps (+) SetToBag({<<uid, ip>>})

\* UserService.remove_banned_ip: the banned_ips table after it; first() takes
\* one matching row
remove_banned_ip(uid, ip) ==
    IF BagIn(<<uid, ip>>, bannedIps) THEN bannedIps (-) SetToBag({<<uid, ip>>})
    ELSE bannedIps

\* POST /users/{uid}/allow-ips
add_new_ip_address(creds, request, uid, ip) ==
    /\ last.op = "idle"
    /\ LET g == guard(creds, request, uid)
           cur == get_current_user(creds, request)
       IN  IF g # "ok"
           THEN /\ last' = IF cur.err # "ok" THEN Failed(creds, request)
                        ELSE Managed("allow_ip", creds, get_ip_address(request), uid, ip,
                                    g, cur.user)
                /\ UNCHANGED stores
           ELSE /\ Fits(1)
                /\ knownIps' = add_allowed_ip(uid, ip)
                /\ last' = Managed("allow_ip", creds, get_ip_address(request), uid, ip,
                                    "Created", cur.user)
                /\ UNCHANGED <<users, nextUid, bannedIps, issued, nextJti, blocklist, now, inflight>>

\* a variant of the ban route that moves the address out of the known_ips table
ban_new_ip_address_MovesRow(creds, request, uid, ip) ==
    /\ last.op = "idle"
    /\ LET g == guard(creds, request, uid)
           cur == get_current_user(creds, request)
       IN  IF g # "ok"
           THEN /\ last' = IF cur.err # "ok" THEN Failed(creds, request)
                        ELSE Managed("ban_ip", creds, get_ip_address(request), uid, ip,
                                    g, cur.user)
                /\ UNCHANGED stores
           ELSE /\ Fits(1)
                /\ bannedIps' = add_banned_ip(uid, ip)
                /\ knownIps' = [p \in DOMAIN knownIps \ {<<uid, ip>>} |-> knownIps[p]]
                /\ last' = Managed("ban_ip", creds, get_ip_address(request), uid, ip,
                                    "InternalError", cur.user)
                /\ UNCHANGED <<users, nextUid, issued, nextJti, blocklist, now, inflight>>

\* POST /users/{uid}/ban-ips: the row is committed, then appending the
\* BannedIps object to user.knownIps fails the second commit
ban_new_ip_address(creds, request, uid, ip) ==
    /\ last.op = "idle"
    /\ LET g == guard(creds, request, uid)
           cur == get_current_user(creds, request)
       IN  IF g # "ok"
           THEN /\ last' = IF cur.err # "ok" THEN Failed(creds, request)
                        ELSE Managed("ban_ip", creds, get_ip_address(request), uid, ip,
                                    g, cur.user)
                /\ UNCHANGED stores
           ELSE /\ Fits(1)
                /\ bannedIps' = add_banned_ip(uid, ip)
                /\ last' = Managed("ban_ip", creds, get_ip_address(request), uid, ip,
                                    "InternalError", cur.user)
                /\ UNCHANGED <<users, nextUid, knownIps, issued, nextJti, blocklist, now, inflight>>

\* DELETE /users/{uid}/ban-ips/{ip}
unban_new_ip_address(creds, request, uid, ip) ==
    /\ last.op = "idle"
    /\ LET g == guard(creds, request, uid)
           cur == get_current_user(creds, request)
       IN  IF g # "ok"
           THEN /\ last' = IF cur.err # "ok" THEN Failed(creds, request)
                        ELSE Managed("unban_ip", creds, get_ip_address(request), uid, ip,
                                    g, cur.user)
                /\ UNCHANGED stores
           ELSE /\ bannedIps' = remove_banned_ip(uid, ip)
                /\ last' = Managed("unban_ip", creds, get_ip_address(request), uid, ip,
                                    "ok", cur.user)
                /\ UNCHANGED <<users, nextUid, knownIps, issued, nextJti, blocklist, now, inflight>>

\* DELETE /users/{uid}: delete_profile -> UserService.remove_user, with the
\* cascade of the user's relationships
delete_profile(creds, request, uid) ==
    /\ last.op = "idle"
    /\ LET g == guard(creds, request, uid)
           cur == get_current_user(creds, request)
       IN  IF g # "ok"
           THEN /\ last' = IF cur.err # "ok" THEN Failed(creds, request)
                        ELSE Req("delete_profile", creds, get_ip_address(request), None,
                                 uid, "ACCEPTED", g, cur.user)
                /\ UNCHANGED stores
           ELSE /\ users' = [u \in DOMAIN users \ {uid} |-> users[u]]
                /\ knownIps' = Cascade(knownIps, uid)
                /\ bannedIps' = Cascade(bannedIps, uid)
                /\ last' = Req("delete_profile", creds, get_ip_address(request), None, uid,
                               "ACCEPTED", "ok", cur.user)
                /\ UNCHANGED <<nextUid, issued, nextJti, blocklist, now, inflight>>

(***************************************************************************)
(* The environment: the clock, and an operator who sets User.isBlocked in  *)
(* the database (no route of the service writes the column).               *)
(***************************************************************************)
Tick ==
    /\ last.op = "idle"
    /\ Fits(1)
    /\ now' = now + TickStep
    /\ last' = Req("tick", NoCredentials, <<>>, None, 0, "none", "none", 0)
    /\ UNCHANGED <<users, nextUid, knownIps, bannedIps, issued, nextJti, blocklist, inflight>>

set_isBlocked(uid, flag) ==
    /\ last.op = "idle"
    /\ uid \in DOMAIN users
    /\ users[uid].isBlocked # flag
    /\ users' = [users EXCEPT ![uid].isBlocked = flag]
    /\ last' = Req("set_isBlocked", NoCredentials, <<>>, None, uid, "none", "none", 0)
    /\ UNCHANGED <<nextUid, knownIps, bannedIps, issued, nextJti, blocklist, now, inflight>>

\* the response is sent: the service is ready for the next request
respond ==
    /\ last.op # "idle"
    /\ last' = Req("idle", NoCredentials, <<>>, None, 0, "none", "none", 0)
    /\ UNCHANGED stores

Next ==
    \/ \E request \in Requests, email \in Emails :
            register(request, email, "secret", "company")
    \/ \E email \in Emails : verify_email(email)
    \/ \E request \in Requests, email \in Emails, password \in Passwords :
            login(request, email, password)
    \/ \E creds \in Presentable, request \in Requests :
            get_new_access_token(creds, request)
    \/ \E creds \in Presentable, request \in Requests : revoke_token(creds, request)
    \/ \E creds \in Presentable, request \in Requests : me(creds, request)
    \/ \E creds \in Held, request \in Requests, uid \in UIDs, ip \in IPs :
            add_new_ip_address(creds, request, uid, ip)
    \/ \E creds \in Held, request \in Requests, uid \in UIDs, ip \in IPs :
            ban_new_ip_address(creds, request, uid, ip)
    \/ \E creds \in Held, request \in Requests, uid \in UIDs, ip \in IPs :
            unban_new_ip_address(creds, request, uid, ip)
    \/ \E creds \in Held, request \in Requests, uid \in UIDs :
            delete_profile(creds, request, uid)
    \/ Tick
    \/ \E uid \in UIDs, flag \in BOOLEAN : set_isBlocked(uid, flag)
    \/ respond

Spec == Init /\ [][Next]_vars

(***************************************************************************)
(* Vocabulary of the properties.                                           *)
(***************************************************************************)
\* the bearer a route depends on, and the requests a bearer has judged
BearerOf(op) == IF op = "refresh_token" THEN "refresh" ELSE "access"
ReadRoutes == {"get_current_user", "me"}
ManagementRoutes == {"allow_ip", "ban_ip", "unban_ip", "delete_profile"}
BearerRoutes == ReadRoutes \cup ManagementRoutes \cup {"refresh_token", "logout"}

\* a credential signed by the service, not yet expired
Genuine(creds) == creds.present /\ creds.signed /\ creds.claims.exp > now
\* the Revocation Store holds a live entry for the credential's jti
Revoked(creds) ==
    /\ creds.claims.jti \in DOMAIN blocklist
    /\ blocklist[creds.claims.jti] > now
\* the verdict the kind of a good token should get from a bearer
KindVerdict(bearer, creds) ==
    IF creds.claims.refresh
    THEN (IF bearer = "refresh" THEN "ACCEPTED" ELSE "AccessTokenRequired")
    ELSE (IF bearer = "access" THEN "ACCEPTED" ELSE "RefreshTokenRequired")
\* user uid has a row for ip in the known_ips / banned_ips table
Known(uid, ip) == BagIn(<<uid, ip>>, knownIps)
Banned(uid, ip) == BagIn(<<uid, ip>>, bannedIps)
\* the uid registered under an e-mail, 0 when there is none
UidOf(email) ==
    IF \E u \in DOMAIN users : users[u].email = email
    THEN CHOOSE u \in DOMAIN users : users[u].email = email
    ELSE 0
\* the requests get_current_user has resolved without changing a table since
Resolved ==
    /\ last.op \in ReadRoutes
    /\ last.verdict = "ACCEPTED"
    /\ UidOf(last.creds.claims.user.email) # 0

\* C1: a signed, unexpired, unrevoked access token is accepted by
\* AccessTokenBearer and rejected by RefreshTokenBearer with
\* RefreshTokenRequired; a refresh token of that standing is accepted by
\* RefreshTokenBearer and rejected by AccessTokenBearer with
\* AccessTokenRequired, both as an answer of the verifier and as the verdict
\* of the request last handled.
C1_BearerKind ==
    /\ \A creds \in Presentable, bearer \in {"access", "refresh"} :
          (Genuine(creds) /\ ~Revoked(creds))
              => TokenBearer(bearer, creds) = KindVerdict(bearer, creds)
    /\ (last.op \in BearerRoutes \ {"logout"} /\ Genuine(last.creds) /\ ~Revoked(last.creds))
          => last.verdict = KindVerdict(BearerOf(last.op), last.creds)
    /\ (last.op = "logout" /\ last.outcome = "ok")
          => /\ Genuine(last.creds)
             /\ last.verdict = KindVerdict("access", last.creds)

\* an access token in good standing was presented to the refresh route and
\* turned away as the wrong kind
C1_Witness ==
    /\ last.op = "refresh_token"
    /\ Genuine(last.creds) /\ ~Revoked(last.creds)
    /\ ~last.creds.claims.refresh
    /\ last.verdict = "RefreshTokenRequired"

\* C2: once logout has put an access token's jti in the Revocation Store,
\* and until the token expires, both bearers answer InvalidToken for it, the
\* answer a forged or an expired token gets; so does every request that
\* presents it.
C2_RevokedIsInvalid ==
    /\ \A creds \in Presentable, bearer \in {"access", "refresh"} :
          /\ (Genuine(creds) /\ creds.claims.jti \in DOMAIN blocklist)
                => TokenBearer(bearer, creds) = "InvalidToken"
          /\ (creds.present /\ ~Genuine(creds))
                => TokenBearer(bearer, creds) = "InvalidToken"
    /\ (/\ last.op \in BearerRoutes
        /\ Genuine(last.creds)
        /\ last.creds.claims.jti \in DOMAIN blocklist
        /\ ~(last.op = "logout" /\ last.outcome = "ok"))
          => last.verdict = "InvalidToken" /\ last.outcome = "InvalidToken"

\* a logged-out access token, still unexpired, was presented at a later
\* clock reading and turned away
C2_Witness ==
    /\ last.op = "get_current_user"
    /\ Genuine(last.creds)
    /\ last.creds.claims.jti \in DOMAIN blocklist
    /\ now > blocklist[last.creds.claims.jti] - ACCESS_TOKEN_EXPIRY
    /\ last.verdict = "InvalidToken"

\* C3: when a user has both a Known-IP row and a Banned-IP row for the
\* address a request resolves to, does_ip_exist, login and get_current_user
\* all end in BannedIp, whether or not the user is blocked.
C3_BannedWins ==
    /\ \A uid \in DOMAIN users, request \in Requests :
          LET ip == get_ip_address(request) IN
          (Known(uid, ip) /\ Banned(uid, ip))
              => /\ does_ip_exist(uid, request) = "BannedIp"
                 /\ \A password \in Passwords :
                       authenticate_user(users[uid].email, password, request).err
                           = "BannedIp"
                 /\ \A creds \in Held :
                       creds.claims.user.email = users[uid].email
                           /\ TokenBearer("access", creds) = "ACCEPTED"
                       => get_current_user(creds, request).err = "BannedIp"
    /\ (/\ last.op = "login" /\ UidOf(last.email) # 0
        /\ Known(UidOf(last.email), last.ip) /\ Banned(UidOf(last.email), last.ip))
          => last.outcome = "BannedIp"
    /\ (/\ Resolved
        /\ Known(UidOf(last.creds.claims.user.email), last.ip)
        /\ Banned(UidOf(last.creds.claims.user.email), last.ip))
          => last.outcome = "BannedIp"

\* a blocked user's request from an address that is both known and banned
\* ended in BannedIp
C3_Witness ==
    /\ Resolved
    /\ LET uid == UidOf(last.creds.claims.user.email) IN
       /\ Known(uid, last.ip) /\ Banned(uid, last.ip)
       /\ users[uid].isBlocked
    /\ last.outcome = "BannedIp"

\* C4: when an existing user has no Known-IP row for the address a request
\* resolves to, does_ip_exist, login and get_current_user all end in
\* UnknownIpConflict, whatever isBlocked is and whether or not a Banned-IP
\* row for the address exists.
C4_UnknownFirst ==
    /\ \A uid \in DOMAIN users, request \in Requests :
          LET ip == get_ip_address(request) IN
          ~Known(uid, ip)
              => /\ does_ip_exist(uid, request) = "UnknownIpConflict"
                 /\ \A password \in Passwords :
                       authenticate_user(users[uid].email, password, request).err
                           = "UnknownIpConflict"
                 /\ \A creds \in Held :
                       creds.claims.user.email = users[uid].email
                           /\ TokenBearer("access", creds) = "ACCEPTED"
                       => get_current_user(creds, request).err = "UnknownIpConflict"
    /\ (/\ last.op = "login" /\ UidOf(last.email) # 0
        /\ ~Known(UidOf(last.email), last.ip))
          => last.outcome = "UnknownIpConflict"
    /\ (Resolved /\ ~Known(UidOf(last.creds.claims.user.email), last.ip))
          => last.outcome = "UnknownIpConflict"

\* a blocked user's request from an address that is banned but not known
\* ended in UnknownIpConflict
C4_Witness ==
    /\ Resolved
    /\ LET uid == UidOf(last.creds.claims.user.email) IN
       /\ ~Known(uid, last.ip) /\ Banned(uid, last.ip)
       /\ users[uid].isBlocked
    /\ last.outcome = "UnknownIpConflict"

\* C5: get_current_user never returns a blocked user: with a token the
\* bearer accepts and an address that is known and not banned, a blocked
\* user's request ends in UserBlocked, and every request that got past the
\* resolver was resolved to a user who is not blocked.
C5_BlockedNeverResolved ==
    /\ \A creds \in Presentable, request \in Requests :
          LET cur == get_current_user(creds, request) IN
          /\ cur.err = "ok" => ~users[cur.user].isBlocked
          /\ TokenBearer("access", creds) = "ACCEPTED"
                => LET uid == UidOf(creds.claims.user.email)
                       ip == get_ip_address(request)
                   IN  (/\ uid # 0
                        /\ Known(uid, ip) /\ ~Banned(uid, ip)
                        /\ users[uid].isBlocked)
                           => cur.err = "UserBlocked"
    /\ (last.op = "me" \/ (last.op \in ManagementRoutes /\ last.user \in DOMAIN users))
          => ~users[last.user].isBlocked
    /\ (/\ Resolved
        /\ LET uid == UidOf(last.creds.claims.user.email) IN
           /\ Known(uid, last.ip) /\ ~Banned(uid, last.ip)
           /\ users[uid].isBlocked)
          => last.outcome = "UserBlocked"

\* a blocked user's request with a good token from a trusted address ended
\* in UserBlocked
C5_Witness ==
    /\ Resolved
    /\ LET uid == UidOf(last.creds.claims.user.email) IN
       /\ Known(uid, last.ip) /\ ~Banned(uid, last.ip)
       /\ users[uid].isBlocked
    /\ last.outcome = "UserBlocked"

\* C6: a login for an existing user from an address the user has no Known-IP
\* row for ends in UnknownIpConflict; when add_allowed_ip(u, b) has completed
\* the row for b is there, and from then on a login from b with the correct
\* password, b not banned, passes the trust check and succeeds: it returns
\* the token pair, or the verification code when no e-mail is verified yet.
C6_LoginAfterAllow ==
    /\ (last.op = "login" /\ UidOf(last.email) # 0 /\ ~Known(UidOf(last.email), last.ip))
          => last.outcome = "UnknownIpConflict"
    /\ (last.op = "allow_ip" /\ last.outcome = "Created")
          => Known(last.uid, last.target)
    /\ \A uid \in DOMAIN users, request \in Requests :
          LET ip == get_ip_address(request) IN
          (Known(uid, ip) /\ ~Banned(uid, ip))
              => authenticate_user(users[uid].email, "secret", request)
                    = [err |-> "ok", user |-> uid]
    /\ (/\ last.op = "login" /\ UidOf(last.email) # 0
        /\ Known(UidOf(last.email), last.ip) /\ ~Banned(UidOf(last.email), last.ip)
        /\ last.outcome # "InvalidCredentials")
          => /\ last.user = UidOf(last.email)
             /\ last.outcome =
                   IF users[last.user].verifiedEmails = {} THEN "VerifyEmail" ELSE "ok"

\* a user with Known-IP rows for two addresses, one of them added through
\* add_allowed_ip, logged in and got the token pair
C6_Witness ==
    /\ last.op = "login" /\ last.outcome = "ok"
    /\ \E ip \in IPs :
          /\ ip # last.ip
          /\ Known(last.user, ip)
          /\ Known(last.user, last.ip)
    /\ BagCardinality(knownIps) = 2
    /\ \E t \in issued : t.user.user_uid = last.user /\ t.refresh

\* C7: a bearer accepts a token only if it is signed by the service, its exp
\* lies after the current time, the Revocation Store holds no live entry for
\* its jti, and its refresh flag is the kind the bearer wants; nothing else
\* is accepted, by the verifier or by a route.
C7_AcceptedOnlyIfGood ==
    /\ \A creds \in Presentable, bearer \in {"access", "refresh"} :
          TokenBearer(bearer, creds) = "ACCEPTED"
              => /\ creds.present /\ creds.signed
                 /\ creds.claims \in issued
                 /\ creds.claims.exp > now
                 /\ ~Revoked(creds)
                 /\ creds.claims.refresh = (bearer = "refresh")
    /\ (last.op \in BearerRoutes /\ last.verdict = "ACCEPTED")
          => /\ last.creds.present /\ last.creds.signed
             /\ last.creds.claims \in issued
             /\ last.creds.claims.exp > now
             /\ last.op # "logout" => ~Revoked(last.creds)
             /\ last.creds.claims.refresh = (BearerOf(last.op) = "refresh")

\* a route behind AccessTokenBearer was entered while a revoked, an expired
\* or a forged token was there to be presented
C7_Witness ==
    /\ last.op = "me" /\ last.verdict = "ACCEPTED"
    /\ \E creds \in Presentable : creds.present /\ creds.signed /\ Revoked(creds)

\* C8: every route that needs a bearer token, logout and refresh_token
\* included, does its work only when the token's user has a Known-IP row and
\* no Banned-IP row for the client address of the request.
C8_EveryBearerRouteChecksIp ==
    (/\ last.op \in BearerRoutes \ {"get_current_user"}
     /\ last.verdict = "ACCEPTED"
     /\ last.outcome \in {"ok", "Created"}
     /\ last.op # "delete_profile"
     /\ UidOf(last.creds.claims.user.email) # 0)
        => /\ Known(UidOf(last.creds.claims.user.email), last.ip)
           /\ ~Banned(UidOf(last.creds.claims.user.email), last.ip)

C10_PureReads ==
    [][(\/ last'.op \in ReadRoutes \cup {"login", "refresh_token"}
        \/ last'.op = "logout" /\ last'.verdict # "ACCEPTED"
        \/ last'.op \in ManagementRoutes /\ last'.outcome = "InsufficientPermission")
          => UNCHANGED <<users, knownIps, bannedIps, blocklist>>]_vars

\* a login from an address the user has no row for was turned away, and the
\* user still has no row for it
C10_Witness ==
    /\ last.op = "login"
    /\ last.outcome = "UnknownIpConflict"
    /\ UidOf(last.email) # 0
    /\ ~Known(UidOf(last.email), last.ip)

(***************************************************************************)
(* get_ip_address and does_ip_exist as functions of the request: a second  *)
(* specification that draws one request, and the Known-IP row of user 1,   *)
(* and resolves it.                                                        *)
(***************************************************************************)
HeaderNames == {"next-ip", "X-Forwarded-For", "X-Real-IP"}

\* the values a header can carry: empty, one address, a chain, an address
\* in blanks, a chain with a blank first entry
HeaderValues(h) ==
    CASE h = "next-ip" -> {<<>>, <<"10.0.0.1">>}
      [] h = "X-Forwarded-For" ->
            {<<>>, <<"10.0.0.2", ",", " ", "10.0.0.1">>, <<" ", "10.0.0.2", " ">>,
             <<",", "10.0.0.1">>}
      [] h = "X-Real-IP" -> {<<>>, <<"10.0.0.1">>}

Headers ==
    UNION {{f \in [present -> UNION {HeaderValues(h) : h \in HeaderNames}] :
               \A h \in present : f[h] \in HeaderValues(h)} :
           present \in SUBSET HeaderNames}

Hosts == RecognizedHosts \cup {"evil.example"}

IpRequests == [headers : Headers, host : Hosts, peer : IPs]

\* user 1 registered, with a Known-IP row for one address
InitIp ==
    /\ users = <<[email |-> "u1@x.io", passwordHash |-> generateHashKey("secret"),
                  isBlocked |-> FALSE, isCompany |-> TRUE, isSuperuser |-> FALSE,
                  verifiedEmails |-> {}]>>
    /\ nextUid = 2
    /\ knownIps \in {SetToBag({<<1, ip>>}) : ip \in IPs \cup {LOOPBACK}}
    /\ bannedIps = EmptyBag
    /\ issued = {}
    /\ nextJti = 1
    /\ blocklist = <<>>
    /\ now = 0
    /\ inflight = EmptyBag
    /\ last \in {[op |-> "received", request |-> r, ip |-> <<>>, decision |-> "none"] :
                    r \in IpRequests}

\* does_ip_exist(user 1, request) runs: the address get_ip_address gives and
\* the trust decision reached
resolve_ip ==
    /\ last.op = "received"
    /\ last' = [op |-> "resolved", request |-> last.request,
                ip |-> get_ip_address(last.request),
                decision |-> does_ip_exist(1, last.request)]
    /\ UNCHANGED stores

NextIp == resolve_ip

SpecIp == InitIp /\ [][NextIp]_vars

\* the first comma-separated entry of an X-Forwarded-For value, blanks removed
FirstEntry(xff) ==
    CASE xff = <<"10.0.0.2", ",", " ", "10.0.0.1">> -> <<"10.0.0.2">>
      [] xff = <<" ", "10.0.0.2", " ">> -> <<"10.0.0.2">>
      [] OTHER -> <<>>

\* the address the precedence rule picks, before any default is applied
Picked(request) ==
    LET h == request.headers IN
    IF "next-ip" \in DOMAIN h THEN h["next-ip"]
    ELSE IF request.host \in {"localhost", "api.jeremiahedavid.online",
                              "api.jeremiahedavid.com.ng"}
         THEN IF "X-Forwarded-For" \in DOMAIN h /\ h["X-Forwarded-For"] # <<>>
              THEN FirstEntry(h["X-Forwarded-For"])
              ELSE IF "X-Real-IP" \in DOMAIN h THEN h["X-Real-IP"]
              ELSE request.peer
    ELSE <<"127.0.0.1">>

\* C11 (as stated): get_ip_address returns the next-ip header when present;
\* else, for a recognised host, the first entry of a non-empty
\* X-Forwarded-For, else X-Real-IP, else the peer address; for any other host
\* 127.0.0.1.
C11_PrecedenceAsStated ==
    last.op = "resolved" => last.ip = Picked(last.request)

\* C11 (amended): get_ip_address returns the address picked by that
\* precedence when it is not empty, and 127.0.0.1 when it is empty: an empty
\* next-ip or X-Real-IP value, or an X-Forwarded-For whose first entry is
\* blank.
C11_PrecedenceWithDefault ==
    last.op = "resolved"
        => last.ip = IF Picked(last.request) = <<>> THEN <<"127.0.0.1">>
                     ELSE Picked(last.request)

\* a request to a recognised host with a blank first X-Forwarded-For entry
\* and an X-Real-IP header was resolved to 127.0.0.1
C11_Witness ==
    /\ last.op = "resolved"
    /\ last.request.host = "api.jeremiahedavid.com.ng"
    /\ DOMAIN last.request.headers = {"X-Forwarded-For", "X-Real-IP"}
    /\ last.request.headers["X-Forwarded-For"] = <<",", "10.0.0.1">>
    /\ last.request.headers["X-Real-IP"] = <<"10.0.0.1">>
    /\ last.ip = <<"127.0.0.1">>

\* C12: two requests to the same unrecognised host from the same peer, which
\* differ only in the next-ip, X-Forwarded-For and X-Real-IP headers, get the
\* same address from get_ip_address and the same decision from does_ip_exist.
C12_UnrecognisedHostIgnoresHeaders ==
    (last.op = "resolved" /\ last.request.host \notin RecognizedHosts)
        => \A other \in IpRequests :
              (other.host = last.request.host /\ other.peer = last.request.peer)
                  => /\ get_ip_address(other) = last.ip
                     /\ does_ip_exist(1, other) = last.decision

\* C13: the entry logout writes for a jti lasts at least until the revoked
\* token expires: a logout that succeeded left an entry that ends no earlier
\* than the token, and no token whose jti was added to the Revocation Store
\* is unexpired and accepted by a bearer.
C13_RevocationOutlivesToken ==
    /\ \A t \in issued :
          (t.jti \in DOMAIN blocklist /\ t.exp > now)
              => /\ blocklist[t.jti] >= t.exp
                 /\ \A bearer \in {"access", "refresh"} :
                       TokenBearer(bearer, Credential(t, TRUE)) # "ACCEPTED"
    /\ (last.op = "logout" /\ last.outcome = "ok")
          => /\ last.creds.claims.jti \in DOMAIN blocklist
             /\ blocklist[last.creds.claims.jti] >= last.creds.claims.exp

\* an access token was logged out part-way through its life, so the entry
\* ends after the token does
C13_Witness ==
    /\ last.op = "logout" /\ last.outcome = "ok"
    /\ now > 0
    /\ last.creds.claims.exp > now
    /\ blocklist[last.creds.claims.jti] > last.creds.claims.exp

\* C14: every (user, ip) pair has at most one row in known_ips and at most
\* one row in banned_ips.
C14_OneRowPerPair ==
    /\ \A pair \in DOMAIN knownIps : knownIps[pair] <= 1
    /\ \A pair \in DOMAIN bannedIps : bannedIps[pair] <= 1

\* C16: when remove_user(u) has completed no known_ips or banned_ips row of
\* u is left, and the rows of every other user are as they were.
C16_CascadeDelete ==
    [][(last'.op = "delete_profile" /\ last'.outcome = "ok")
          => /\ \A pair \in DOMAIN knownIps' \cup DOMAIN bannedIps' :
                   pair[1] # last'.uid
             /\ \A pair \in DOMAIN knownIps \cup DOMAIN bannedIps :
                   pair[1] # last'.uid
                       => /\ CopiesIn(pair, knownIps') = CopiesIn(pair, knownIps)
                          /\ CopiesIn(pair, bannedIps') = CopiesIn(pair, bannedIps)
             /\ last'.uid \notin DOMAIN users'
             /\ \A u \in DOMAIN users \ {last'.uid} :
                   u \in DOMAIN users' /\ users'[u] = users[u]]_vars

\* a user was deleted while another user had rows, which are still there
C16_Witness ==
    /\ last.op = "delete_profile" /\ last.outcome = "ok"
    /\ last.uid \notin DOMAIN users
    /\ \E pair \in DOMAIN knownIps : pair[1] # last.uid /\ pair[1] \in DOMAIN users

\* C17: whenever a user has a Banned-IP row for the address a request
\* resolves to, does_ip_exist, login and get_current_user end in BannedIp,
\* whether or not the user also has a Known-IP row for it.
C17_BanIsVeto ==
    /\ \A uid \in DOMAIN users, request \in Requests :
          Banned(uid, get_ip_address(request))
              => does_ip_exist(uid, request) = "BannedIp"
    /\ (last.op = "login" /\ UidOf(last.email) # 0 /\ Banned(UidOf(last.email), last.ip))
          => last.outcome = "BannedIp"
    /\ (Resolved /\ Banned(UidOf(last.creds.claims.user.email), last.ip))
          => last.outcome = "BannedIp"

\* C18: a signed token whose exp is at or before the current second is
\* answered with InvalidToken by both bearers, whatever its kind and
\* whatever the Revocation Store holds, and so is every request that
\* presents one.
C18_ExpiredIsInvalid ==
    /\ \A t \in issued, age \in {0, 1}, bearer \in {"access", "refresh"} :
          /\ decode_token(Credential([t EXCEPT !.exp = now - age], TRUE)) = <<>>
          /\ TokenBearer(bearer, Credential([t EXCEPT !.exp = now - age], TRUE))
                = "InvalidToken"
    /\ \A creds \in Presentable, bearer \in {"access", "refresh"} :
          (creds.present /\ creds.signed /\ creds.claims.exp <= now)
              => TokenBearer(bearer, creds) = "InvalidToken"
    /\ (/\ last.op \in BearerRoutes
        /\ last.creds.present /\ last.creds.signed
        /\ last.creds.claims.exp <= now)
          => last.verdict = "InvalidToken" /\ last.outcome = "InvalidToken"

\* an access token that was never revoked was presented in the very second
\* it expires and was turned away
C18_Witness ==
    /\ last.op \in {"get_current_user", "refresh_token"}
    /\ last.creds.present /\ last.creds.signed
    /\ last.creds.claims.exp = now
    /\ last.creds.claims.jti \notin DOMAIN blocklist
    /\ last.verdict = "InvalidToken"

\* C19 (as stated): the kind of a token is checked before the Revocation
\* Store result is acted on: a decodable token of the wrong kind is rejected
\* as the wrong kind whether or not its jti is revoked.
C19_KindBeforeRevocation ==
    /\ \A creds \in Presentable, bearer \in {"access", "refresh"} :
          (Genuine(creds) /\ KindVerdict(bearer, creds) # "ACCEPTED")
              => TokenBearer(bearer, creds) = KindVerdict(bearer, creds)
    /\ (/\ last.op \in BearerRoutes /\ Genuine(last.creds)
        /\ KindVerdict(BearerOf(last.op), last.creds) # "ACCEPTED")
          => last.verdict = KindVerdict(BearerOf(last.op), last.creds)

\* C19 (amended): the Revocation Store result is acted on before the kind
\* of the token is checked: a decodable token whose jti is revoked is
\* rejected with InvalidToken whatever its kind and the bearer, and a
\* decodable token that is not revoked is rejected as the wrong kind when
\* its kind is not the bearer's.
C19_RevocationBeforeKind ==
    /\ \A creds \in Presentable, bearer \in {"access", "refresh"} :
          Genuine(creds)
              => TokenBearer(bearer, creds) =
                    IF Revoked(creds) THEN "InvalidToken" ELSE KindVerdict(bearer, creds)
    /\ (/\ last.op \in BearerRoutes /\ Genuine(last.creds)
        /\ ~(last.op = "logout" /\ last.outcome = "ok"))
          => last.verdict =
                IF Revoked(last.creds) THEN "InvalidToken"
                ELSE KindVerdict(BearerOf(last.op), last.creds)

\* a logged-out access token, still unexpired, was presented to the refresh
\* route and turned away as invalid, not as the wrong kind
C19_Witness ==
    /\ last.op = "refresh_token"
    /\ Genuine(last.creds) /\ Revoked(last.creds)
    /\ ~last.creds.claims.refresh
    /\ last.verdict = "InvalidToken"

(***************************************************************************)
(* Requests that overlap: register_new_user commits the user and then the  *)
(* Known-IP row, and logout verifies the token and then writes to the      *)
(* Revocation Store; between the two steps other requests run.             *)
(***************************************************************************)
\* register_new_user up to its first commit: the user row is in the table
register_new_user_commit_user(request, email, password, permission) ==
    /\ last.op = "idle"
    /\ LET user == get_user_by_email_or_uid(email, 0)
           ip == get_ip_address(request)
       IN  IF user # <<>>
           THEN /\ last' = Req("register", NoCredentials, ip, email, 0, "none",
                               "UserAlreadyExists", 0)
                /\ UNCHANGED stores
           ELSE /\ Fits(2)
                /\ users' = [u \in DOMAIN users \cup {nextUid} |->
                               IF u = nextUid
                               THEN [email |-> email,
                                     passwordHash |-> generateHashKey(password),
                                     isBlocked |-> FALSE,
                                     isCompany |-> permission \in {"company", "superuser"},
                                     isSuperuser |-> permission = "superuser",
                                     verifiedEmails |-> {}]
                               ELSE users[u]]
                /\ nextUid' = nextUid + 1
                /\ inflight' = inflight (+) SetToBag({[op |-> "register", uid |-> nextUid,
                                                       ip |-> ip, email |-> email]})
                /\ UNCHANGED <<knownIps, bannedIps, issued, nextJti, blocklist, now, last>>

\* register_new_user from there: the KnownIps row is committed and the
\* route answers
register_new_user_commit_ip(r) ==
    /\ last.op = "idle"
    /\ r.op = "register"
    /\ knownIps' = knownIps (+) SetToBag({<<r.uid, r.ip>>})
    /\ inflight' = inflight (-) SetToBag({r})
    /\ last' = Req("register", NoCredentials, r.ip, r.email, 0, "none", "Created", r.uid)
    /\ UNCHANGED <<users, nextUid, bannedIps, issued, nextJti, blocklist, now>>

\* logout up to the end of its AccessTokenBearer dependency
revoke_token_verified(creds, request) ==
    /\ last.op = "idle"
    /\ LET verdict == TokenBearer("access", creds)
           ip == get_ip_address(request)
       IN  IF verdict # "ACCEPTED"
           THEN /\ last' = Req("logout", creds, ip, None, 0, verdict, verdict, 0)
                /\ UNCHANGED stores
           ELSE /\ Fits(1)
                /\ inflight' = inflight (+) SetToBag({[op |-> "logout", creds |-> creds,
                                                       ip |-> ip]})
                /\ UNCHANGED <<users, nextUid, knownIps, bannedIps, issued, nextJti,
                               blocklist, now, last>>

\* a variant of the write in which a second write for a jti removes its entry
revoke_token_toggle(r) ==
    /\ last.op = "idle"
    /\ r.op = "logout"
    /\ blocklist' = IF r.creds.claims.jti \in DOMAIN blocklist
                    THEN [j \in DOMAIN blocklist \ {r.creds.claims.jti} |-> blocklist[j]]
                    ELSE add_jti_to_blocklist(r.creds.claims.jti)
    /\ inflight' = inflight (-) SetToBag({r})
    /\ last' = [again |-> r.creds.claims.jti \in DOMAIN blocklist]
                  @@ Req("logout", r.creds, r.ip, None, 0, "ACCEPTED", "ok", 0)
    /\ UNCHANGED <<users, nextUid, knownIps, bannedIps, issued, nextJti, now>>

\* logout from there: the body of revoke_token writes the jti and answers;
\* `again` notes that the store already had an entry for it
revoke_token_write(r) ==
    /\ last.op = "idle"
    /\ r.op = "logout"
    /\ blocklist' = add_jti_to_blocklist(r.creds.claims.jti)
    /\ inflight' = inflight (-) SetToBag({r})
    /\ last' = [again |-> r.creds.claims.jti \in DOMAIN blocklist]
                  @@ Req("logout", r.creds, r.ip, None, 0, "ACCEPTED", "ok", 0)
    /\ UNCHANGED <<users, nextUid, knownIps, bannedIps, issued, nextJti, now>>

NextSteps ==
    \/ \E request \in Requests, email \in Emails :
            register_new_user_commit_user(request, email, "secret", "company")
    \/ \E r \in DOMAIN inflight : register_new_user_commit_ip(r)
    \/ \E email \in Emails : verify_email(email)
    \/ \E request \in Requests, email \in Emails, password \in Passwords :
            login(request, email, password)
    \/ \E creds \in Presentable, request \in Requests :
            revoke_token_verified(creds, request)
    \/ \E r \in DOMAIN inflight : revoke_token_write(r)
    \/ \E creds \in Presentable, request \in Requests : me(creds, request)
    \/ Tick
    \/ respond

SpecSteps == Init /\ [][NextSteps]_vars

\* C15: in every state, the states between the two commits of
\* register_new_user included, each user in the table has at least one
\* Known-IP row, and a registration that answered Created left the pair
\* (new user, client address) in known_ips.
C15_FirstIpRecorded ==
    /\ \A u \in DOMAIN users : \E pair \in DOMAIN knownIps : pair[1] = u
    /\ (last.op = "register" /\ last.outcome = "Created")
          => Known(last.user, last.ip)

\* C20: a write to the Revocation Store for a jti that already has an entry
\* leaves the set of revoked jtis as it was, and in every state a token
\* whose jti has an entry gets InvalidToken from both bearers until it
\* expires, after two writes as after one.
C20_IdempotentRevocation ==
    /\ [](\A t \in issued :
             (t.jti \in DOMAIN blocklist /\ t.exp > now)
                 => \A bearer \in {"access", "refresh"} :
                       TokenBearer(bearer, Credential(t, TRUE)) = "InvalidToken")
    /\ [][(/\ last'.op = "logout" /\ last'.outcome = "ok"
           /\ last'.creds.claims.jti \in DOMAIN blocklist)
             => /\ DOMAIN blocklist' = DOMAIN blocklist
                /\ last'.again]_vars

\* two logouts with the same access token passed verification before either
\* wrote; the second write has landed, the token is still unexpired, and the
\* store holds the one entry
C20_Witness ==
    /\ last.op = "logout" /\ last.outcome = "ok"
    /\ last.again
    /\ last.creds.claims.exp > now
    /\ DOMAIN blocklist = {last.creds.claims.jti}
    /\ TokenBearer("access", last.creds) = "InvalidToken"

(***************************************************************************)
(* Management of the trust tables, logout and login, over Spec.            *)
(***************************************************************************)
\* the routes that write the known_ips / banned_ips rows of user uid
IpRoutes == {"allow_ip", "ban_ip", "unban_ip"}

\* the tables hold the same rows for every user other than uid
SameRowsExcept(uid) ==
    /\ \A p \in DOMAIN knownIps \cup DOMAIN knownIps' :
            p[1] # uid => CopiesIn(p, knownIps') = CopiesIn(p, knownIps)
    /\ \A p \in DOMAIN bannedIps \cup DOMAIN bannedIps' :
            p[1] # uid => CopiesIn(p, bannedIps') = CopiesIn(p, bannedIps)

C23_LogoutSparesRefresh ==
    /\ [](\A t \in issued :
             t.refresh =>
                /\ t.jti \notin DOMAIN blocklist
                /\ (t.exp > now
                      => TokenBearer("refresh", Credential(t, TRUE)) = "ACCEPTED"))
    /\ [][  /\ blocklist' # blocklist => last'.op = "logout" /\ last'.outcome = "ok"
            /\ (last'.op = "logout" /\ last'.outcome = "ok")
                  => DOMAIN blocklist' = DOMAIN blocklist \cup {last'.creds.claims.jti}
            /\ (last'.op = "refresh_token" /\ last'.verdict = "ACCEPTED"
                  /\ UidOf(last'.creds.claims.user.email) # 0)
                  => /\ last'.outcome = "ok"
                     /\ \E t \in issued' \ issued :
                            ~t.refresh /\ t.user = last'.creds.claims.user
          ]_vars

\* refresh_token issued an access token from the refresh token of a login whose
\* access token has been revoked
C23_Witness ==
    /\ last.op = "refresh_token"
    /\ last.outcome = "ok"
    /\ (last.creds.claims.jti - 1) \in DOMAIN blocklist
    /\ blocklist[last.creds.claims.jti - 1] > now

\* C24: an access token that get_current_user accepts resolves to the uid it
\* was issued to, and yields UserNotFound once that user is deleted.
C24_TokenResolvesToIssuee ==
    \A creds \in Held, request \in Requests :
        LET cur == get_current_user(creds, request)
            issuee == creds.claims.user.user_uid
        IN  /\ cur.err = "ok" => cur.user = issuee
            /\ (issuee \notin DOMAIN users /\ TokenBearer("access", creds) = "ACCEPTED")
                  => cur.err = "UserNotFound"

\* C25: login returns no token for a user whose isBlocked flag is set.
C25_NoTokensForBlocked ==
    (last.op = "login" /\ last.outcome = "ok") => ~users[last.user].isBlocked

\* the outcome of a login by the order of checks: the user, the Known-IP row,
\* the Banned-IP row, the password, the verified e-mail
LoginOrder(email, password, ip) ==
    LET uid == UidOf(email) IN
    IF uid = 0 THEN "UserNotFound"
    ELSE IF ~Known(uid, ip) THEN "UnknownIpConflict"
    ELSE IF Banned(uid, ip) THEN "BannedIp"
    ELSE IF users[uid].passwordHash # generateHashKey(password) THEN "InvalidCredentials"
    ELSE IF users[uid].verifiedEmails = {} THEN "VerifyEmail"
    ELSE "ok"

\* C26: login returns tokens only when the user exists, the client address is
\* known and not banned for that user, the password verifies and the user has
\* a verified e-mail; the checks run in that order, so a login from an unknown
\* address fails with UnknownIpConflict for every password, and a login of a
\* user without a verified e-mail returns a verification code and no token.
C26_LoginOrder ==
    /\ [](\A request \in Requests, email \in Emails, password \in Passwords :
             LET expected == LoginOrder(email, password, get_ip_address(request))
             IN  authenticate_user(email, password, request).err =
                     (IF expected = "VerifyEmail" THEN "ok" ELSE expected))
    /\ [][ last'.op = "login" =>
              /\ \E password \in Passwords :
                    last'.outcome = LoginOrder(last'.email, password, last'.ip)
              /\ ((issued' # issued) <=> (last'.outcome = "ok"))
              /\ last'.outcome = "ok" =>
                    \A t \in issued' \ issued :
                        t.user = [email |-> last'.email, user_uid |-> UidOf(last'.email)]
          ]_vars

\* a login of a registered user from an address that is not known for it was
\* turned away, whatever the password
C26_Witness ==
    /\ last.op = "login"
    /\ last.outcome = "UnknownIpConflict"
    /\ UidOf(last.email) # 0
    /\ users[UidOf(last.email)].verifiedEmails # {}
    /\ issued # {}

\* C27: a ban that reaches add_banned_ip adds the Banned-IP row and completes
\* without error.
C27_BanCompletes ==
    (last.op = "ban_ip" /\ last.outcome # "InsufficientPermission"
                        /\ last.uid \in DOMAIN users)
        => /\ Banned(last.uid, last.target)
           /\ status_code(last.outcome) \in {HTTP_200_OK, HTTP_201_CREATED}

\* C28: after remove_banned_ip(u, ip) has completed the banned_ips query of
\* does_ip_exist finds no row for (u, ip), and no request from ip is turned
\* away with BannedIp for u.
C28_UnbanLiftsBan ==
    (last.op = "unban_ip" /\ last.outcome = "ok")
        => /\ ~Banned(last.uid, last.target)
           /\ \A request \in Requests :
                  get_ip_address(request) = last.target
                      => does_ip_exist(last.uid, request) # "BannedIp"

\* C30: while a user exists no step removes one of its Known-IP rows: an
\* address that passes the Known-IP check for the user passes it after every
\* step that leaves the user in place.
C30_KnownRowsStay ==
    [][ \A p \in DOMAIN knownIps :
            p[1] \in DOMAIN users'
                => /\ CopiesIn(p, knownIps') >= CopiesIn(p, knownIps)
                   /\ BagIn(p, knownIps')
      ]_vars

\* an address known for a user was banned for it, and its Known-IP row is in
\* place
C30_Witness ==
    /\ last.op = "ban_ip"
    /\ last.outcome = "InternalError"
    /\ Banned(last.uid, last.target)
    /\ Known(last.uid, last.target)

(***************************************************************************)
(* Store failures: a request during which every query of one store raises. *)
(* Nothing in TokenBearer.__call__, does_user_exist, does_ip_exist or       *)
(* get_current_user catches an exception of an awaited query.               *)
(***************************************************************************)
\* the store that is down while a request is served
Faults == {"none", "blocklist", "known_ips", "banned_ips"}

\* a variant that takes a failed Revocation Store lookup for "not revoked"
TokenBearerUnder_FailOpen(bearer, creds, failing) ==
    IF failing = "blocklist" THEN TokenBearer_NoBlocklist(bearer, creds)
    ELSE TokenBearer(bearer, creds)

\* TokenBearer.__call__: "StoreError" when await token_in_blocklist raises
TokenBearerUnder(bearer, creds, failing) ==
    IF ~creds.present THEN "NotAuthenticated"
    ELSE IF decode_token(creds) = <<>> THEN "InvalidToken"
    ELSE IF failing = "blocklist" THEN "StoreError"
    ELSE TokenBearer(bearer, creds)

\* does_ip_exist: "StoreError" when the known_ips or the banned_ips query raises
does_ip_exist_under(uid, request, failing) ==
    LET ip == get_ip_address(request) IN
    IF failing = "known_ips" THEN "StoreError"
    ELSE IF ~BagIn(<<uid, ip>>, knownIps) THEN "UnknownIpConflict"
    ELSE IF failing = "banned_ips" THEN "StoreError"
    ELSE IF BagIn(<<uid, ip>>, bannedIps) THEN "BannedIp"
    ELSE "ok"

\* does_user_exist, called with an email: [err, user]
does_user_exist_under(email, request, failing) ==
    LET user == UserByEmail(email) IN
    IF user = <<>> THEN [err |-> "UserNotFound", user |-> 0]
    ELSE IF does_ip_exist_under(user[1], request, failing) # "ok"
         THEN [err |-> does_ip_exist_under(user[1], request, failing), user |-> 0]
         ELSE [err |-> "ok", user |-> user[1]]

\* get_current_user with its AccessTokenBearer dependency: [err, user]
get_current_user_under(creds, request, failing) ==
    IF TokenBearerUnder("access", creds, failing) # "ACCEPTED"
    THEN [err |-> TokenBearerUnder("access", creds, failing), user |-> 0]
    ELSE LET found == does_user_exist_under(creds.claims.user.email, request, failing) IN
         IF found.err # "ok" THEN found
         ELSE IF users[found.user].isBlocked THEN [err |-> "UserBlocked", user |-> 0]
         ELSE found

\* GET /users/me while a store is down
me_under(creds, request, failing) ==
    /\ last.op = "idle"
    /\ LET cur == get_current_user_under(creds, request, failing)
           ip == get_ip_address(request)
           verdict == TokenBearerUnder("access", creds, failing)
       IN  /\ last' = [failing |-> failing] @@
                        (IF cur.err # "ok"
                         THEN Req("get_current_user", creds, ip, None, 0, verdict, cur.err, 0)
                         ELSE Req("me", creds, ip, None, 0, "ACCEPTED", "ok", cur.user))
           /\ UNCHANGED stores

\* GET /auth/refresh_token while the Revocation Store may be down
get_new_access_token_under(creds, request, failing) ==
    /\ last.op = "idle"
    /\ LET verdict == TokenBearerUnder("refresh", creds, failing)
           ip == get_ip_address(request)
       IN
       IF verdict # "ACCEPTED"
       THEN /\ last' = [failing |-> failing] @@
                         Req("refresh_token", creds, ip, None, 0, verdict, verdict, 0)
            /\ UNCHANGED stores
       ELSE LET token_details == creds.claims
                user == get_user_by_email_or_uid(token_details.user.email, 0)
            IN  IF token_details.exp \div 86400 < now \div 86400
                THEN /\ last' = [failing |-> failing] @@
                                  Req("refresh_token", creds, ip, None, 0, verdict,
                                      "InvalidToken", 0)
                     /\ UNCHANGED stores
                ELSE IF user = <<>>
                THEN /\ last' = [failing |-> failing] @@
                                  Req("refresh_token", creds, ip, None, 0, verdict,
                                      "UserNotFound", 0)
                     /\ UNCHANGED stores
                ELSE /\ Fits(1)
                     /\ issued' = issued \cup
                           {create_access_token(token_details.user, nextJti, FALSE,
                                                ACCESS_TOKEN_EXPIRY)}
                     /\ nextJti' = nextJti + 1
                     /\ last' = [failing |-> failing] @@
                                  Req("refresh_token", creds, ip, None, 0, verdict,
                                      "ok", user[1])
                     /\ UNCHANGED <<users, nextUid, knownIps, bannedIps, blocklist, now,
                                    inflight>>

NextFaults ==
    \/ \E request \in Requests, email \in Emails :
            register(request, email, "secret", "company")
    \/ \E email \in Emails : verify_email(email)
    \/ \E request \in Requests, email \in Emails, password \in Passwords :
            login(request, email, password)
    \/ \E creds \in Presentable, request \in Requests : revoke_token(creds, request)
    \/ \E creds \in Held, request \in Requests, uid \in UIDs, ip \in IPs :
            ban_new_ip_address(creds, request, uid, ip)
    \/ \E creds \in Presentable, request \in Requests, failing \in Faults :
            me_under(creds, request, failing)
    \/ \E creds \in Presentable, request \in Requests, failing \in {"none", "blocklist"} :
            get_new_access_token_under(creds, request, failing)
    \/ respond

SpecFaults == Init /\ [][NextFaults]_vars

\* C21: while the Revocation Store is down no bearer returns claims, and while
\* the Revocation Store, the known_ips table or the banned_ips table is down
\* get_current_user returns no user: the request ends with an error, and with
\* the store's own error when the failing query was reached; with every store
\* up the verdicts are those of TokenBearer and get_current_user.
C21_NeverFailsOpen ==
    /\ \A creds \in Presentable, request \in Requests :
          /\ \A bearer \in {"access", "refresh"} :
                /\ TokenBearerUnder(bearer, creds, "blocklist") # "ACCEPTED"
                /\ (creds.present /\ decode_token(creds) # <<>>)
                      => TokenBearerUnder(bearer, creds, "blocklist") = "StoreError"
                /\ TokenBearerUnder(bearer, creds, "none") = TokenBearer(bearer, creds)
          /\ \A failing \in Faults \ {"none"} :
                /\ get_current_user_under(creds, request, failing).err # "ok"
                /\ get_current_user_under(creds, request, failing).user = 0
          /\ get_current_user_under(creds, request, "none") = get_current_user(creds, request)
    /\ ("failing" \in DOMAIN last /\ last.failing # "none")
          => /\ last.op # "me"
             /\ last.user = 0
             /\ last.verdict = "ACCEPTED" => last.failing # "blocklist"
             /\ last.outcome # "ok"
             /\ status_code(last.outcome) >= HTTP_400_BAD_REQUEST

\* a request that get_current_user would have resolved ended with the error of
\* a store that was down
C21_Witness ==
    /\ last.op = "get_current_user"
    /\ "failing" \in DOMAIN last
    /\ last.failing \in {"blocklist", "banned_ips"}
    /\ last.outcome = "StoreError"
    /\ \E request \in Requests :
          /\ get_ip_address(request) = last.ip
          /\ get_current_user(last.creds, request).err = "ok"

(***************************************************************************)
(* Registrations that overlap: register_new_user looks the e-mail up,       *)
(* awaits get_location, commits the user row and then the Known-IP row;     *)
(* other requests run between these steps. users.email is UNIQUE.           *)
(***************************************************************************)
\* register_new_user up to its e-mail lookup
register_new_user_lookup(request, email) ==
    /\ last.op = "idle"
    /\ LET user == get_user_by_email_or_uid(email, 0)
           ip == get_ip_address(request)
       IN  IF user # <<>>
           THEN /\ last' = Req("register", NoCredentials, ip, email, 0, "none",
                               "UserAlreadyExists", 0)
                /\ UNCHANGED stores
           ELSE /\ Fits(2)
                /\ inflight' = inflight (+) SetToBag({[op |-> "register_lookup",
                                                       ip |-> ip, email |-> email]})
                /\ UNCHANGED <<users, nextUid, knownIps, bannedIps, issued, nextJti,
                               blocklist, now, last>>

\* the row of a user registered with this e-mail, password and permission
new_user(email, password, permission) ==
    [email |-> email,
     passwordHash |-> generateHashKey(password),
     isBlocked |-> FALSE,
     isCompany |-> permission \in {"company", "superuser"},
     isSuperuser |-> permission = "superuser",
     verifiedEmails |-> {}]

\* a variant of the first commit on a users table without the UNIQUE
\* constraint on email
register_new_user_insert_NoUnique(r, password, permission) ==
    /\ last.op = "idle"
    /\ r.op = "register_lookup"
    /\ users' = [u \in DOMAIN users \cup {nextUid} |->
                    IF u = nextUid THEN new_user(r.email, password, permission)
                    ELSE users[u]]
    /\ nextUid' = nextUid + 1
    /\ inflight' = (inflight (-) SetToBag({r}))
                      (+) SetToBag({[op |-> "register", uid |-> nextUid,
                                     ip |-> r.ip, email |-> r.email]})
    /\ UNCHANGED <<knownIps, bannedIps, issued, nextJti, blocklist, now, last>>

\* register_new_user from the lookup to its first commit: the insert fails on
\* the UNIQUE constraint of users.email when another request has committed a
\* user with the e-mail since, and the request ends with the database error
register_new_user_insert(r, password, permission) ==
    /\ last.op = "idle"
    /\ r.op = "register_lookup"
    /\ IF \E u \in DOMAIN users : users[u].email = r.email
       THEN /\ inflight' = inflight (-) SetToBag({r})
            /\ last' = Req("register", NoCredentials, r.ip, r.email, 0, "none",
                           "InternalError", 0)
            /\ UNCHANGED <<users, nextUid, knownIps, bannedIps, issued, nextJti,
                           blocklist, now>>
       ELSE /\ users' = [u \in DOMAIN users \cup {nextUid} |->
                           IF u = nextUid THEN new_user(r.email, password, permission)
                           ELSE users[u]]
            /\ nextUid' = nextUid + 1
            /\ inflight' = (inflight (-) SetToBag({r}))
                              (+) SetToBag({[op |-> "register", uid |-> nextUid,
                                             ip |-> r.ip, email |-> r.email]})
            /\ UNCHANGED <<knownIps, bannedIps, issued, nextJti, blocklist, now, last>>

NextRace ==
    \/ \E request \in Requests, email \in Emails : register_new_user_lookup(request, email)
    \/ \E r \in DOMAIN inflight : register_new_user_insert(r, "secret", "company")
    \/ \E r \in DOMAIN inflight : register_new_user_commit_ip(r)
    \/ \E email \in Emails : verify_email(email)
    \/ \E request \in Requests, email \in Emails, password \in Passwords :
            login(request, email, password)
    \/ \E creds \in Presentable, request \in Requests : me(creds, request)
    \/ respond

SpecRace == Init /\ [][NextRace]_vars

\* the Known-IP rows of user u, counted with their copies
RowsOf(u) ==
    LET pairs == {p \in DOMAIN knownIps : p[1] = u}
        RECURSIVE Sum(_)
        Sum(S) == IF S = {} THEN 0
                  ELSE LET p == CHOOSE q \in S : TRUE
                       IN  CopiesIn(p, knownIps) + Sum(S \ {p})
    IN  Sum(pairs)

\* C29: a registration whose e-mail lookup finds a user ends with
\* UserAlreadyExists, and a registration that ends with an error creates no
\* user and no Known-IP row; under every interleaving of the steps of
\* overlapping registrations at most one user has a given e-mail, a user has
\* no Known-IP row between the two commits of its registration and exactly
\* one after, and that row is the pair (user, address of the request that
\* registered it).
C29_OneUserPerEmail ==
    /\ [](/\ \A email \in Emails :
                Cardinality({u \in DOMAIN users : users[u].email = email}) <= 1
          /\ \A u \in DOMAIN users :
                IF \E r \in DOMAIN inflight : r.op = "register" /\ r.uid = u
                THEN RowsOf(u) = 0
                ELSE RowsOf(u) = 1)
    /\ [][ last'.op = "register" /\ last' # last =>
              /\ last'.outcome \in {"UserAlreadyExists", "InternalError", "Created"}
              /\ last'.outcome = "UserAlreadyExists"
                    => /\ UidOf(last'.email) # 0
                       /\ UNCHANGED stores
              /\ last'.outcome = "InternalError"
                    => /\ UidOf(last'.email) # 0
                       /\ UNCHANGED <<users, knownIps>>
              /\ last'.outcome = "Created"
                    => /\ users' = users
                       /\ users[last'.user].email = last'.email
                       /\ RowsOf(last'.user) = 0
                       /\ knownIps' = knownIps (+) SetToBag({<<last'.user, last'.ip>>})
          ]_vars
    /\ [][ \A email \in Emails :
              (UidOf(email) # 0 /\ \E r \in DOMAIN inflight' \ DOMAIN inflight :
                                       r.op = "register_lookup" /\ r.email = email)
                  => FALSE
          ]_vars

\* two registrations with one e-mail both passed the lookup; one committed
\* the user and its Known-IP row, the insert of the other has failed
C29_Witness ==
    /\ last.op = "register"
    /\ last.outcome = "InternalError"
    /\ Cardinality({u \in DOMAIN users : users[u].email = last.email}) = 1
    /\ RowsOf(UidOf(last.email)) = 1

====
